---- MODULE Spec2Model ----
(***************************************************************************)
(* Model of the load balancer of Aashi-001/Load-Balancer (package main):    *)
(* the backend pool, the three selection algorithms, the dispatcher         *)
(* serveProxy with the per-backend connection counters, and the health      *)
(* probes that set each backend's alive flag under its RWMutex.             *)
(*                                                                          *)
(* Backends are the slice indices 0..len(lb.servers)-1.  Every access to    *)
(* shared state (an atomic add or load, a read of alive under RLock, the    *)
(* write of alive under Lock) is one step of the task that performs it, so  *)
(* that tasks interleave exactly where goroutines can.                      *)
(***************************************************************************)
EXTENDS Integers, Sequences, FiniteSets, TLC

\* ------------------------------------------------------------------ bounds
MaxServers == 2     \* pool sizes 0..MaxServers in Spec
MaxReq == 2         \* concurrent requests in Spec
MaxProbes == 2      \* probe goroutines that can be outstanding at once
FairServers == 1    \* pool sizes 0..FairServers in FairSpec
FairProbes == 1     \* probe goroutines in FairSpec
RRServers == 3      \* largest pool in SpecRR
RRCallers == 2      \* concurrent callers of the round-robin selector in SpecRR
MaxCalls == 6       \* round-robin selections issued in one run of SpecRR
WrapDist == 2       \* SpecRR may start WrapDist selections before the int32 wrap
LCServers == 3      \* largest pool in SpecLC
MaxLoad == 3        \* requests already in flight when SpecLC starts
BuildServers == 2   \* pool sizes 0..BuildServers in SpecBuild
BuildReq == 1       \* concurrent requests in SpecBuild
BuildProbes == 2    \* probe goroutines in SpecBuild
HealServers == 2    \* largest pool in SpecHeal
HealProbes == 2     \* probe goroutines in SpecHeal

\* --------------------------------------------------------------- constants
MaxInt32 == 2147483647
MinInt32 == -MaxInt32 - 1
NilServer == -1     \* the nil Server interface value
TypedNil == -2      \* a non-nil Server interface holding a nil *simpleServer
NoIndex == -1       \* selected == nil inside getLeastConnServer
NotReturned == -3   \* the selection call has not returned (history only)
Panicked == -4      \* the selection call panicked (history only)

Algorithms == {"roundrobin", "leastconn", "random", ""}

VARIABLES
    servers,        \* indices of lb.servers: 0..len-1
    algorithm,      \* lb.algorithm
    alive,          \* simpleServer.alive
    activeConns,    \* simpleServer.activeConns
    requests,       \* simpleServer.requests
    mu,             \* simpleServer.mu: 0 when free, else the probe holding Lock
    rrCounter,      \* the package variable rrCounter
    pc,             \* where each request task is
    start,          \* getNextRoundRobinServer: start
    i,              \* loop index of the scan the task is in
    selected,       \* getLeastConnServer: selected (NoIndex when nil)
    min,            \* getLeastConnServer: min
    ret,            \* what getNextAvailableSever returned
    status,         \* what the client of the request got
    ppc,            \* where each probe goroutine is
    psrv,           \* the backend a probe goroutine checks
    pok,            \* whether its GET returned 200 without error
    pout,           \* how its GET ended (ProbeOutcomes; "none" before it returned)
    addrOK,         \* per backend, whether url.Parse accepted its address
    \* history of the run, read by the properties only
    seenAlive,      \* backends whose isAlive() returned true in the task's selection call
    callLive,       \* backends that were alive at some moment of the selection call
    someLive,       \* some backend was alive at some moment of the request
    changed,        \* alive or activeConns changed since the selection call started
    samples,        \* rand.Intn draws of the getRandomServer call (saturating)
    starts,         \* increment() calls per backend
    ends,           \* decrement() calls per backend
    how,            \* how the forward of the request ended
    ticket,         \* position of the task's call in the order of rrCounter advances
    rrLog,          \* per ticket, the outcome of that round-robin call
    retLog,         \* outcomes of round-robin calls in the order they returned
    rrInit,         \* rrCounter when the run started
    probed,         \* backends whose alive flag a probe has written
    newest,         \* per backend: the slot of its most recently started probe
                    \* until that probe writes (else 0), and what it wrote
    overlap         \* two selector calls were in progress at once

config == <<servers, algorithm, addrOK>>
shared == <<config, alive, activeConns, requests, mu, rrCounter>>
locals == <<pc, start, i, selected, min, ret, status>>
probes == <<ppc, psrv, pok, pout>>
hist == <<seenAlive, callLive, someLive, changed, samples,
          starts, ends, how, ticket, rrLog, retLog, rrInit, probed, overlap>>
vars == <<shared, locals, probes, hist, newest>>

Tasks == DOMAIN pc
Probes == DOMAIN ppc
total == Cardinality(servers)

\* ----------------------------------------------------------- pure helpers
\* atomic.AddInt32: two's complement wrap-around, returns the new value
\* (the program only ever adds 1 or -1)
AddInt32(c, d) ==
    IF d = 1 /\ c = MaxInt32 THEN MinInt32
    ELSE IF d = -1 /\ c = MinInt32 THEN MaxInt32
    ELSE c + d

\* Go's % on integers truncates toward zero: the result has the sign of a
GoRem(a, b) ==
    IF a >= 0 THEN a % b
    ELSE IF a % b = 0 THEN 0 ELSE (a % b) - b

\* start := int(atomic.AddInt32(&rrCounter, 1) % int32(total))
RRStartOld(c, n) == GoRem(c, n)
RRStart(c, n) == GoRem(AddInt32(c, 1), n)

\* index := (start + i) % total
RRIndex(s, k, n) == GoRem(s + k, n)

\* simpleServer.isAlive(): the flag, read under RLock; and the first version
\* of the method, which answered true for every backend
isAliveAlways(s) == TRUE
isAlive(s) == alive[s]

\* RLock of s.mu is granted while no checkHealth holds its Lock
CanRLock(s) == mu[s] = 0

InCall(r) == pc[r] \in {"rr_scan", "lc_alive", "lc_conns", "lc_print", "rand"}
InRequest(r) == pc[r] \notin {"idle", "done"}
Watched(r) == InCall(r) \/ pc[r] = "check"

\* ------------------------------------------------- history bookkeeping
\* the history of a task whose selection call starts now
BeginCall(r) ==
    /\ seenAlive' = [seenAlive EXCEPT ![r] = {}]
    /\ callLive' = [callLive EXCEPT ![r] = {s \in servers : alive[s]}]
    /\ someLive' = [someLive EXCEPT ![r] = \E s \in servers : alive[s]]
    /\ changed' = [changed EXCEPT ![r] = FALSE]
    /\ overlap' = (overlap \/ \E q \in Tasks \ {r} : InCall(q))

\* the history when backend s has its alive flag written with v
NoteAlive(s, v) ==
    /\ callLive' = [r \in Tasks |->
                      IF InCall(r) /\ v THEN callLive[r] \cup {s} ELSE callLive[r]]
    /\ someLive' = [r \in Tasks |-> someLive[r] \/ (InRequest(r) /\ v)]
    /\ changed' = [r \in Tasks |-> changed[r] \/ (Watched(r) /\ alive[s] # v)]

\* the history when some activeConns counter is written
NoteConns == changed' = [r \in Tasks |-> changed[r] \/ Watched(r)]

\* the history when the round-robin call of r ends with outcome v
NoteRR(r, v) ==
    /\ rrLog' = [rrLog EXCEPT ![ticket[r]] = v]
    /\ retLog' = Append(retLog, v)

callHist == <<seenAlive, callLive, someLive, changed, overlap>>
rrHist == <<ticket, rrLog, retLog>>
connHist == <<starts, ends, how>>

\* the locals of a selection function go out of scope when it returns
Leave(r) ==
    /\ start' = [start EXCEPT ![r] = 0]
    /\ i' = [i EXCEPT ![r] = 0]
    /\ selected' = [selected EXCEPT ![r] = NoIndex]
    /\ min' = [min EXCEPT ![r] = MaxInt32]

\* the switch of getNextAvailableSever on lb.algorithm, and a variant whose
\* default branch is round robin
BranchStrict(alg) ==
    IF alg \in {"roundrobin", "leastconn", "random"} THEN alg ELSE "roundrobin"
Branch(alg) ==
    CASE alg = "roundrobin" -> "roundrobin"
      [] alg = "leastconn" -> "leastconn"
      [] OTHER -> "random"

\* ------------------------------------------------------------ round robin
\* getNextRoundRobinServer up to the loop: the empty-pool return, else the
\* atomic advance of rrCounter and the start index
GetNextRoundRobinServer(r) ==
    /\ pc[r] = "idle"
    /\ Branch(algorithm) = "roundrobin"
    /\ BeginCall(r)
    /\ IF total = 0
       THEN /\ ret' = [ret EXCEPT ![r] = NilServer]
            /\ pc' = [pc EXCEPT ![r] = "check"]
            /\ UNCHANGED <<rrCounter, start, i, rrHist>>
       ELSE /\ rrCounter' = AddInt32(rrCounter, 1)
            /\ start' = [start EXCEPT ![r] = RRStart(rrCounter, total)]
            /\ i' = [i EXCEPT ![r] = 0]
            /\ pc' = [pc EXCEPT ![r] = "rr_scan"]
            /\ ticket' = [ticket EXCEPT ![r] = Len(rrLog) + 1]
            /\ rrLog' = Append(rrLog, NotReturned)
            /\ UNCHANGED <<ret, retLog>>
    /\ UNCHANGED <<config, alive, activeConns, requests, mu>>
    /\ UNCHANGED <<selected, min, status, probes, samples, connHist, rrInit, probed, newest>>

\* one iteration of the loop of getNextRoundRobinServer: lb.servers[index]
\* panics when index is out of range, isAlive() waits for the backend's lock
RRScan(r) ==
    /\ pc[r] = "rr_scan"
    /\ LET index == RRIndex(start[r], i[r], total) IN
       IF index \notin servers
       THEN /\ pc' = [pc EXCEPT ![r] = "done"]
            /\ status' = [status EXCEPT ![r] = "panic"]
            /\ NoteRR(r, Panicked)
            /\ Leave(r)
            /\ UNCHANGED <<ret, seenAlive>>
       ELSE /\ CanRLock(index)
            /\ IF isAlive(index)
               THEN /\ ret' = [ret EXCEPT ![r] = index]
                    /\ pc' = [pc EXCEPT ![r] = "check"]
                    /\ seenAlive' = [seenAlive EXCEPT ![r] = @ \cup {index}]
                    /\ NoteRR(r, index)
                    /\ Leave(r)
               ELSE IF i[r] + 1 = total
               THEN /\ ret' = [ret EXCEPT ![r] = NilServer]
                    /\ pc' = [pc EXCEPT ![r] = "check"]
                    /\ NoteRR(r, NilServer)
                    /\ Leave(r)
                    /\ UNCHANGED seenAlive
               ELSE /\ i' = [i EXCEPT ![r] = @ + 1]
                    /\ UNCHANGED <<ret, pc, seenAlive, rrLog, retLog>>
                    /\ UNCHANGED <<start, selected, min>>
            /\ UNCHANGED status
    /\ UNCHANGED <<shared, probes, ticket, rrInit, probed, newest>>
    /\ UNCHANGED <<callLive, someLive, changed, overlap>>
    /\ UNCHANGED <<samples, connHist>>

\* ------------------------------------------------------- least connections
\* what getLeastConnServer returns for its local selected: a nil *simpleServer
\* converted to Server is not the nil interface
LCReturn(sel) == IF sel = NoIndex THEN TypedNil ELSE sel

\* the strict comparison c < min of the scan, and its non-strict variant
LCBetterEq(c, m) == c <= m
LCBetter(c, m) == c < m

\* where a scan at index k of the first loop goes next
LCAdvance(r, k) ==
    IF k + 1 = total
    THEN /\ pc' = [pc EXCEPT ![r] = "lc_print"]
         /\ i' = [i EXCEPT ![r] = 0]
    ELSE /\ pc' = [pc EXCEPT ![r] = "lc_alive"]
         /\ i' = [i EXCEPT ![r] = k + 1]

\* getLeastConnServer up to its first loop.  lb.mu is only ever read-locked,
\* so RLock never waits.  On an empty pool both loops are empty.
GetLeastConnServer(r) ==
    /\ pc[r] = "idle"
    /\ Branch(algorithm) = "leastconn"
    /\ BeginCall(r)
    /\ Leave(r)
    /\ IF total = 0
       THEN /\ ret' = [ret EXCEPT ![r] = LCReturn(NoIndex)]
            /\ pc' = [pc EXCEPT ![r] = "check"]
       ELSE /\ pc' = [pc EXCEPT ![r] = "lc_alive"]
            /\ UNCHANGED ret
    /\ UNCHANGED <<shared, status, probes, samples, connHist, rrHist, rrInit, probed, newest>>

\* first loop: srv.isAlive()
LCIsAlive(r) ==
    /\ pc[r] = "lc_alive"
    /\ CanRLock(i[r])
    /\ IF isAlive(i[r])
       THEN /\ pc' = [pc EXCEPT ![r] = "lc_conns"]
            /\ seenAlive' = [seenAlive EXCEPT ![r] = @ \cup {i[r]}]
            /\ UNCHANGED i
       ELSE /\ LCAdvance(r, i[r])
            /\ UNCHANGED seenAlive
    /\ UNCHANGED <<shared, start, selected, min, ret, status, probes>>
    /\ UNCHANGED <<callLive, someLive, changed, overlap>>
    /\ UNCHANGED <<samples, connHist, rrHist, rrInit, probed, newest>>

\* first loop: c := ss.getActiveConns(); c < min
LCGetActiveConns(r) ==
    /\ pc[r] = "lc_conns"
    /\ LET c == activeConns[i[r]] IN
       IF LCBetter(c, min[r])
       THEN /\ selected' = [selected EXCEPT ![r] = i[r]]
            /\ min' = [min EXCEPT ![r] = c]
       ELSE UNCHANGED <<selected, min>>
    /\ LCAdvance(r, i[r])
    /\ UNCHANGED <<shared, start, ret, status, probes, callHist>>
    /\ UNCHANGED <<samples, connHist, rrHist, rrInit, probed, newest>>

\* the end of the earlier getLeastConnServer, which called
\* selected.increment() itself before it returned
LCPrintIncrementing(r) ==
    /\ pc[r] = "lc_print"
    /\ CanRLock(i[r])
    /\ IF i[r] + 1 = total
       THEN /\ ret' = [ret EXCEPT ![r] = LCReturn(selected[r])]
            /\ pc' = [pc EXCEPT ![r] = "check"]
            /\ Leave(r)
            /\ IF selected[r] = NoIndex
               THEN UNCHANGED <<activeConns, requests>>
               ELSE /\ activeConns' =
                          [activeConns EXCEPT ![selected[r]] = AddInt32(@, 1)]
                    /\ requests' = [requests EXCEPT ![selected[r]] = @ + 1]
       ELSE /\ i' = [i EXCEPT ![r] = @ + 1]
            /\ UNCHANGED <<ret, pc, start, selected, min, activeConns, requests>>
    /\ UNCHANGED <<config, alive, mu, rrCounter, status, probes, callHist>>
    /\ UNCHANGED <<samples, connHist, rrHist, rrInit, probed, newest>>

\* second loop: the Printf of every backend reads getActiveConns() and
\* isAlive(); after the last one the function returns selected
LCPrint(r) ==
    /\ pc[r] = "lc_print"
    /\ CanRLock(i[r])
    /\ IF i[r] + 1 = total
       THEN /\ ret' = [ret EXCEPT ![r] = LCReturn(selected[r])]
            /\ pc' = [pc EXCEPT ![r] = "check"]
            /\ Leave(r)
       ELSE /\ i' = [i EXCEPT ![r] = @ + 1]
            /\ UNCHANGED <<ret, pc, start, selected, min>>
    /\ UNCHANGED <<shared, status, probes, callHist>>
    /\ UNCHANGED <<samples, connHist, rrHist, rrInit, probed, newest>>

\* ------------------------------------------------------------------ random
\* the default branch of getNextAvailableSever: rand.Intn(0) panics
GetRandomServer(r) ==
    /\ pc[r] = "idle"
    /\ Branch(algorithm) = "random"
    /\ BeginCall(r)
    /\ samples' = [samples EXCEPT ![r] = 0]
    /\ IF total = 0
       THEN /\ pc' = [pc EXCEPT ![r] = "done"]
            /\ status' = [status EXCEPT ![r] = "panic"]
       ELSE /\ pc' = [pc EXCEPT ![r] = "rand"]
            /\ UNCHANGED status
    /\ UNCHANGED <<shared, start, i, selected, min, ret, probes>>
    /\ UNCHANGED <<connHist, rrHist, rrInit, probed, newest>>

\* one iteration of for { server := lb.servers[rand.Intn(len)]; isAlive() }:
\* the loop has no other exit than the return of an alive backend
RandSample(r) ==
    /\ pc[r] = "rand"
    /\ \E k \in servers :
          /\ CanRLock(k)
          /\ samples' = [samples EXCEPT ![r] = IF @ > total THEN @ ELSE @ + 1]
          /\ IF isAlive(k)
             THEN /\ ret' = [ret EXCEPT ![r] = k]
                  /\ pc' = [pc EXCEPT ![r] = "check"]
                  /\ seenAlive' = [seenAlive EXCEPT ![r] = @ \cup {k}]
             ELSE UNCHANGED <<ret, pc, seenAlive>>
    /\ UNCHANGED <<shared, start, i, selected, min, status, probes>>
    /\ UNCHANGED <<callLive, someLive, changed, overlap>>
    /\ UNCHANGED <<connHist, rrHist, rrInit, probed, newest>>

\* -------------------------------------------------------------- dispatcher
\* the outcomes of s.proxy.ServeHTTP: a response of the backend, a transport
\* error or a cancelled request context (502 from the proxy's error handler),
\* or the proxy's panic(http.ErrAbortHandler)
ForwardOutcomes == {"ok", "error", "cancel", "abort"}

\* status codes a backend answers with: the example backends answer 200
\* on / and /health and 404 elsewhere, any other backend may answer 503
BackendStatuses == {"200", "404", "503"}

\* the status the client gets, and lrw.statusCode, for a forward that ended
\* in the way h: the backend's own code c is relayed
StatusOf(h, c) ==
    CASE h = "ok" -> c
      [] h = "abort" -> "panic"
      [] OTHER -> "502"

\* atomic.AddInt32(&s.activeConns, -1) of decrement(), and a variant that
\* leaves the counter alone when the forward did not succeed
DecrementOnSuccess(c, h) == IF h = "ok" THEN AddInt32(c, -1) ELSE c
Decrement(c, h) == AddInt32(c, -1)

\* serveProxy after getNextAvailableSever returned: the nil test and its 503,
\* targetServer.Address() (a nil pointer dereference for a typed nil), then
\* Serve up to the first atomic add of increment().  The history of the
\* selection call is dropped here.
CheckTarget(r) ==
    /\ pc[r] = "check"
    /\ IF ret[r] = NilServer
       THEN /\ status' = [status EXCEPT ![r] = "503"]
            /\ pc' = [pc EXCEPT ![r] = "done"]
            /\ changed' = [changed EXCEPT ![r] = FALSE]
            /\ UNCHANGED <<activeConns, starts>>
       ELSE IF ret[r] = TypedNil
       THEN /\ status' = [status EXCEPT ![r] = "panic"]
            /\ pc' = [pc EXCEPT ![r] = "done"]
            /\ changed' = [changed EXCEPT ![r] = FALSE]
            /\ UNCHANGED <<activeConns, starts>>
       ELSE /\ activeConns' = [activeConns EXCEPT ![ret[r]] = AddInt32(@, 1)]
            /\ starts' = [starts EXCEPT ![ret[r]] = @ + 1]
            /\ changed' = [q \in Tasks |-> q # r /\ (changed[q] \/ Watched(q))]
            /\ pc' = [pc EXCEPT ![r] = "inc_requests"]
            /\ UNCHANGED status
    /\ seenAlive' = [seenAlive EXCEPT ![r] = {}]
    /\ callLive' = [callLive EXCEPT ![r] = {}]
    /\ samples' = [samples EXCEPT ![r] = 0]
    /\ UNCHANGED <<config, alive, requests, mu, rrCounter>>
    /\ UNCHANGED <<start, i, selected, min, ret, probes>>
    /\ UNCHANGED <<someLive, overlap, ends, how, rrHist, rrInit, probed, newest>>

\* a variant of the second add of increment() that counts every request on
\* the first backend of the pool
IncRequestsFirst(r) ==
    /\ pc[r] = "inc_requests"
    /\ requests' = [requests EXCEPT ![0] = @ + 1]
    /\ pc' = [pc EXCEPT ![r] = "forward"]
    /\ UNCHANGED <<config, alive, activeConns, mu, rrCounter>>
    /\ UNCHANGED <<start, i, selected, min, ret, status, probes, hist, newest>>

\* increment(): atomic.AddInt64(&s.requests, 1); then the forward begins
IncRequests(r) ==
    /\ pc[r] = "inc_requests"
    /\ requests' = [requests EXCEPT ![ret[r]] = @ + 1]
    /\ pc' = [pc EXCEPT ![r] = "forward"]
    /\ UNCHANGED <<config, alive, activeConns, mu, rrCounter>>
    /\ UNCHANGED <<start, i, selected, min, ret, status, probes, hist, newest>>

\* a variant of Serve with passive health checking: a forward that did not
\* succeed marks its backend dead
ServeReturnMarksDead(r, h, c) ==
    /\ pc[r] = "forward"
    /\ addrOK[ret[r]] \/ h = "abort"
    /\ activeConns' = [activeConns EXCEPT ![ret[r]] = Decrement(@, h)]
    /\ alive' = [alive EXCEPT ![ret[r]] = @ /\ h = "ok"]
    /\ ends' = [ends EXCEPT ![ret[r]] = @ + 1]
    /\ how' = [how EXCEPT ![r] = h]
    /\ status' = [status EXCEPT ![r] = StatusOf(h, c)]
    /\ pc' = [pc EXCEPT ![r] = IF h = "abort" THEN "done" ELSE "report"]
    /\ NoteConns
    /\ UNCHANGED <<config, requests, mu, rrCounter>>
    /\ UNCHANGED <<start, i, selected, min, ret, probes>>
    /\ UNCHANGED <<seenAlive, callLive, someLive, overlap>>
    /\ UNCHANGED <<samples, starts, rrHist, rrInit, probed, newest>>

\* s.proxy.ServeHTTP ends in the way h, with the backend's status code c
\* when it relayed a response, and the deferred decrement() runs; a proxy
\* built on the nil URL of a failed url.Parse panics in its director
ServeReturnAs(r, h, c) ==
    /\ pc[r] = "forward"
    /\ addrOK[ret[r]] \/ h = "abort"
    /\ activeConns' = [activeConns EXCEPT ![ret[r]] = Decrement(@, h)]
    /\ ends' = [ends EXCEPT ![ret[r]] = @ + 1]
    /\ how' = [how EXCEPT ![r] = h]
    /\ status' = [status EXCEPT ![r] = StatusOf(h, c)]
    /\ pc' = [pc EXCEPT ![r] = IF h = "abort" THEN "done" ELSE "report"]
    /\ NoteConns
    /\ UNCHANGED <<config, alive, requests, mu, rrCounter>>
    /\ UNCHANGED <<start, i, selected, min, ret, probes>>
    /\ UNCHANGED <<seenAlive, callLive, someLive, overlap>>
    /\ UNCHANGED <<samples, starts, rrHist, rrInit, probed, newest>>

\* every way the forward can end; only a relayed response carries a code
ServeReturn(r) ==
    \E h \in ForwardOutcomes :
        \E c \in (IF h = "ok" THEN BackendStatuses ELSE {"502"}) :
            ServeReturnAs(r, h, c)

\* logRequest and the request metrics
Report(r) ==
    /\ pc[r] = "report"
    /\ pc' = [pc EXCEPT ![r] = "done"]
    /\ UNCHANGED <<shared, start, i, selected, min, ret, status, probes, hist, newest>>

\* ------------------------------------------------------------ health probes
\* one round of the monitor loop: go checkHealth() for every backend
MonitorRound ==
    /\ total > 0
    /\ LET free == {p \in Probes : ppc[p] = "idle"} IN
       /\ Cardinality(free) >= total
       /\ LET f == CHOOSE g \in [servers -> free] :
                       \A s, u \in servers : s # u => g[s] # g[u]
              new == {f[s] : s \in servers}
          IN /\ ppc' = [p \in Probes |-> IF p \in new THEN "get" ELSE ppc[p]]
             /\ psrv' = [p \in Probes |->
                           IF p \in new THEN CHOOSE s \in servers : f[s] = p
                           ELSE psrv[p]]
             /\ newest' = [s \in servers |-> [newest[s] EXCEPT !.slot = f[s]]]
    /\ UNCHANGED <<shared, locals, pok, pout, hist>>

\* the ways client.Get(s.addr + "/health") ends: a transport error, the
\* 2 s client timeout, or a response with its status code
ProbeOutcomes == {"error", "timeout", "200", "204", "500"}

\* !(err != nil || resp.StatusCode != http.StatusOK), and a variant that
\* takes every 2xx status
ProbeOK2xx(o) == o \in {"200", "204"}
ProbeOK(o) == o = "200"

\* client.Get(s.addr + "/health") returns in the way o; a GET of an address
\* that is no URL can only fail
ProbeGetAs(p, o) ==
    /\ ppc[p] = "get"
    /\ addrOK[psrv[p]] \/ o = "error"
    /\ pok' = [pok EXCEPT ![p] = ProbeOK(o)]
    /\ pout' = [pout EXCEPT ![p] = o]
    /\ ppc' = [ppc EXCEPT ![p] = "lock"]
    /\ UNCHANGED <<shared, locals, psrv, hist, newest>>

\* the probe as the requests see it: one outcome of each verdict
ProbeGet(p) == \E o \in {"200", "error"} : ProbeGetAs(p, o)

\* the probe with every outcome
ProbeGetAny(p) == \E o \in ProbeOutcomes : ProbeGetAs(p, o)

\* the value checkHealth writes to s.alive, and a variant with the two
\* branches of its if exchanged
ProbeVerdictNot(ok) == ~ok
ProbeVerdict(ok) == ok

\* s.mu.Lock() and the write of s.alive; logHealthCheck follows under the lock
ProbeLock(p) ==
    /\ ppc[p] = "lock"
    /\ mu[psrv[p]] = 0
    /\ mu' = [mu EXCEPT ![psrv[p]] = p]
    /\ alive' = [alive EXCEPT ![psrv[p]] = ProbeVerdict(pok[p])]
    /\ NoteAlive(psrv[p], ProbeVerdict(pok[p]))
    /\ ppc' = [ppc EXCEPT ![p] = "log"]
    /\ UNCHANGED <<config, activeConns, requests, rrCounter>>
    /\ UNCHANGED <<locals, psrv, pok, pout>>
    /\ UNCHANGED <<seenAlive, overlap>>
    /\ UNCHANGED <<samples, connHist, rrHist, rrInit>>
    /\ probed' = probed \cup {psrv[p]}
    /\ newest' = [newest EXCEPT ![psrv[p]] =
                    IF @.slot = p
                    THEN [slot |-> 0, ok |-> ProbeVerdict(pok[p])] ELSE @]

\* logHealthCheck and the gauge are done: s.mu.Unlock()
ProbeUnlock(p) ==
    /\ ppc[p] = "log"
    /\ mu' = [mu EXCEPT ![psrv[p]] = 0]
    /\ ppc' = [ppc EXCEPT ![p] = "idle"]
    /\ psrv' = [psrv EXCEPT ![p] = 0]
    /\ pok' = [pok EXCEPT ![p] = TRUE]
    /\ pout' = [pout EXCEPT ![p] = "none"]
    /\ UNCHANGED <<config, alive, activeConns, requests, rrCounter>>
    /\ UNCHANGED <<locals, hist, newest>>

\* ------------------------------------------------------------ initial state
\* main: every backend of cfg.Backends through initialiseServer (counters
\* zero), newLoadBalancer with cfg.Algorithm, and nobody running yet
InitPool(ss, alg, nt, np) ==
    /\ servers = ss
    /\ algorithm = alg
    /\ activeConns = [s \in ss |-> 0]
    /\ requests = [s \in ss |-> 0]
    /\ mu = [s \in ss |-> 0]
    /\ pc = [r \in 1..nt |-> "idle"]
    /\ start = [r \in 1..nt |-> 0]
    /\ i = [r \in 1..nt |-> 0]
    /\ selected = [r \in 1..nt |-> NoIndex]
    /\ min = [r \in 1..nt |-> MaxInt32]
    /\ ret = [r \in 1..nt |-> NotReturned]
    /\ status = [r \in 1..nt |-> "none"]
    /\ ppc = [p \in 1..np |-> "idle"]
    /\ psrv = [p \in 1..np |-> 0]
    /\ pok = [p \in 1..np |-> TRUE]
    /\ pout = [p \in 1..np |-> "none"]
    /\ seenAlive = [r \in 1..nt |-> {}]
    /\ callLive = [r \in 1..nt |-> {}]
    /\ someLive = [r \in 1..nt |-> FALSE]
    /\ changed = [r \in 1..nt |-> FALSE]
    /\ samples = [r \in 1..nt |-> 0]
    /\ starts = [s \in ss |-> 0]
    /\ ends = [s \in ss |-> 0]
    /\ how = [r \in 1..nt |-> "none"]
    /\ ticket = [r \in 1..nt |-> 0]
    /\ rrLog = <<>>
    /\ retLog = <<>>
    /\ overlap = FALSE

Pools(n) == {0..(k - 1) : k \in 0..n}

\* initialiseServer sets alive: true; rrCounter is a zero-valued package variable
Init ==
    /\ \E ss \in Pools(MaxServers), alg \in Algorithms :
          InitPool(ss, alg, MaxReq, MaxProbes)
    /\ addrOK = [s \in servers |-> TRUE]
    /\ alive = [s \in servers |-> TRUE]
    /\ rrCounter = 0
    /\ rrInit = 0
    /\ probed = {}
    /\ newest = [s \in servers |-> [slot |-> 0, ok |-> alive[s]]]

Next ==
    \/ \E r \in Tasks : GetNextRoundRobinServer(r)
    \/ \E r \in Tasks : RRScan(r)
    \/ \E r \in Tasks : GetLeastConnServer(r)
    \/ \E r \in Tasks : LCIsAlive(r)
    \/ \E r \in Tasks : LCGetActiveConns(r)
    \/ \E r \in Tasks : LCPrint(r)
    \/ \E r \in Tasks : GetRandomServer(r)
    \/ \E r \in Tasks : RandSample(r)
    \/ \E r \in Tasks : CheckTarget(r)
    \/ \E r \in Tasks : IncRequests(r)
    \/ \E r \in Tasks : ServeReturn(r)
    \/ \E r \in Tasks : Report(r)
    \/ MonitorRound
    \/ \E p \in Probes : ProbeGet(p)
    \/ \E p \in Probes : ProbeLock(p)
    \/ \E p \in Probes : ProbeUnlock(p)

Spec == Init /\ [][Next]_vars

\* Every goroutine that can take a step is scheduled, and every forward that
\* was started ends in one of the ForwardOutcomes.
Fairness ==
    /\ \A r \in 1..MaxReq :
          /\ WF_vars(IncRequests(r))
          /\ WF_vars(ServeReturn(r))
          /\ WF_vars(Report(r))
          /\ WF_vars(CheckTarget(r))

\* the initial states of Spec with smaller pools and fewer probe goroutines
InitFair ==
    /\ \E ss \in Pools(FairServers), alg \in Algorithms :
          InitPool(ss, alg, MaxReq, FairProbes)
    /\ addrOK = [s \in servers |-> TRUE]
    /\ alive = [s \in servers |-> TRUE]
    /\ rrCounter = 0
    /\ rrInit = 0
    /\ probed = {}
    /\ newest = [s \in servers |-> [slot |-> 0, ok |-> alive[s]]]

FairSpec == InitFair /\ [][Next]_vars /\ Fairness

\* ------------------------------------------- the round-robin selector alone
\* a caller whose selection has returned calls the selector again
CallAgain(r) ==
    /\ pc[r] = "check"
    /\ Len(rrLog) < MaxCalls
    /\ pc' = [pc EXCEPT ![r] = "idle"]
    /\ ret' = [ret EXCEPT ![r] = NotReturned]
    /\ UNCHANGED <<shared, start, i, selected, min, status, probes, hist, newest>>

\* a process that has been running: the pool is non-empty, probes have left
\* any liveness behind, and rrCounter is at zero or a few calls before the
\* largest int32
InitRR ==
    /\ \E ss \in Pools(RRServers) \ {{}} :
          InitPool(ss, "roundrobin", RRCallers, 0)
    /\ addrOK = [s \in servers |-> TRUE]
    /\ alive \in [servers -> BOOLEAN]
    /\ rrCounter \in {0, MaxInt32 - WrapDist}
    /\ rrInit = rrCounter
    /\ probed = servers
    /\ newest = [s \in servers |-> [slot |-> 0, ok |-> alive[s]]]

NextRR ==
    \/ \E r \in Tasks : GetNextRoundRobinServer(r)
    \/ \E r \in Tasks : RRScan(r)
    \/ \E r \in Tasks : CallAgain(r)

SpecRR == InitRR /\ [][NextRR]_vars

\* ---------------------------------------- the least-connections scan alone
\* a non-decreasing assignment of the requests in flight to backends
\* (NoIndex: that request has ended), so that equal loads are not tried twice
Loads(ss) ==
    {ld \in [2..(MaxLoad + 1) -> ss \cup {NoIndex}] :
        \A a, b \in 2..(MaxLoad + 1) : a < b => ld[a] <= ld[b]}

\* a process that has been running: up to MaxLoad requests are being
\* forwarded, probes have left any liveness behind and one probe of the
\* current round is still out; task 1 is about to select.  The forwards
\* that end while it scans end well: how a forward ends makes no difference
\* to the counters.
InitLC ==
    /\ \E ss \in Pools(LCServers) \ {{}} :
          /\ servers = ss
          /\ \E ld \in Loads(ss) :
                /\ pc = [r \in 1..(MaxLoad + 1) |->
                           IF r = 1 THEN "idle"
                           ELSE IF ld[r] = NoIndex THEN "done" ELSE "forward"]
                /\ ret = [r \in 1..(MaxLoad + 1) |->
                            IF r = 1 THEN NotReturned ELSE ld[r]]
                /\ activeConns =
                     [s \in ss |-> Cardinality({r \in 2..(MaxLoad + 1) : ld[r] = s})]
          /\ \E s \in ss : psrv = <<s>>
    /\ algorithm = "leastconn"
    /\ alive \in [servers -> BOOLEAN]
    /\ requests = activeConns
    /\ starts = activeConns
    /\ ends = [s \in servers |-> 0]
    /\ mu = [s \in servers |-> 0]
    /\ rrCounter = 0
    /\ rrInit = 0
    /\ probed = servers
    /\ newest = [s \in servers |->
                   [slot |-> IF psrv[1] = s THEN 1 ELSE 0, ok |-> alive[s]]]
    /\ start = [r \in Tasks |-> 0]
    /\ i = [r \in Tasks |-> 0]
    /\ selected = [r \in Tasks |-> NoIndex]
    /\ min = [r \in Tasks |-> MaxInt32]
    /\ status = [r \in Tasks |-> "none"]
    /\ ppc = <<"get">>
    /\ pok = <<TRUE>>
    /\ pout = <<"none">>
    /\ addrOK = [s \in servers |-> TRUE]
    /\ seenAlive = [r \in Tasks |-> {}]
    /\ callLive = [r \in Tasks |-> {}]
    /\ someLive = [r \in Tasks |-> FALSE]
    /\ changed = [r \in Tasks |-> FALSE]
    /\ samples = [r \in Tasks |-> 0]
    /\ how = [r \in Tasks |-> "none"]
    /\ ticket = [r \in Tasks |-> 0]
    /\ rrLog = <<>>
    /\ retLog = <<>>
    /\ overlap = FALSE

NextLC ==
    \/ \E r \in Tasks : GetLeastConnServer(r)
    \/ \E r \in Tasks : LCIsAlive(r)
    \/ \E r \in Tasks : LCGetActiveConns(r)
    \/ \E r \in Tasks : LCPrint(r)
    \/ \E r \in Tasks : ServeReturnAs(r, "ok", "200")
    \/ \E p \in Probes : ProbeGet(p)
    \/ \E p \in Probes : ProbeLock(p)
    \/ \E p \in Probes : ProbeUnlock(p)

SpecLC == InitLC /\ [][NextLC]_vars

\* ------------------------------------------- startup from any configuration
\* algorithm names a configuration file may hold
AlgorithmNames == Algorithms \cup {"leastcon", "RoundRobin"}

\* what initialiseServer returns for an address url.Parse accepts (ok) or
\* rejects: handleErr only prints the error, and the backend is built alive
\* either way, on the nil URL when the parse failed; and a variant that
\* builds the backend dead, to be revived by its first probe
initialiseServerDead(ok) == [alive |-> FALSE, parsed |-> ok]
initialiseServer(ok) == [alive |-> TRUE, parsed |-> ok]

\* main for any cfg.Backends and cfg.Algorithm: every entry of cfg.Backends
\* is appended to servers
InitBuild ==
    /\ \E ss \in Pools(BuildServers), alg \in AlgorithmNames :
          InitPool(ss, alg, BuildReq, BuildProbes)
    /\ \E cfg \in [servers -> BOOLEAN] :
          /\ addrOK = [s \in servers |-> initialiseServer(cfg[s]).parsed]
          /\ alive = [s \in servers |-> initialiseServer(cfg[s]).alive]
    /\ rrCounter = 0
    /\ rrInit = 0
    /\ probed = {}
    /\ newest = [s \in servers |-> [slot |-> 0, ok |-> alive[s]]]

\* Next with every outcome of the probe's GET
NextAny ==
    \/ \E r \in Tasks : GetNextRoundRobinServer(r)
    \/ \E r \in Tasks : RRScan(r)
    \/ \E r \in Tasks : GetLeastConnServer(r)
    \/ \E r \in Tasks : LCIsAlive(r)
    \/ \E r \in Tasks : LCGetActiveConns(r)
    \/ \E r \in Tasks : LCPrint(r)
    \/ \E r \in Tasks : GetRandomServer(r)
    \/ \E r \in Tasks : RandSample(r)
    \/ \E r \in Tasks : CheckTarget(r)
    \/ \E r \in Tasks : IncRequests(r)
    \/ \E r \in Tasks : ServeReturn(r)
    \/ \E r \in Tasks : Report(r)
    \/ MonitorRound
    \/ \E p \in Probes : ProbeGetAny(p)
    \/ \E p \in Probes : ProbeLock(p)
    \/ \E p \in Probes : ProbeUnlock(p)

SpecBuild == InitBuild /\ [][NextAny]_vars

\* ------------------------------------------------- the health monitor alone
\* a process that has been running, with no request in progress
InitHeal ==
    /\ \E ss \in Pools(HealServers) \ {{}} :
          InitPool(ss, "roundrobin", 0, HealProbes)
    /\ addrOK = [s \in servers |-> TRUE]
    /\ alive \in [servers -> BOOLEAN]
    /\ rrCounter = 0
    /\ rrInit = 0
    /\ probed = servers
    /\ newest = [s \in servers |-> [slot |-> 0, ok |-> alive[s]]]

NextHeal ==
    \/ MonitorRound
    \/ \E p \in Probes : ProbeGetAny(p)
    \/ \E p \in Probes : ProbeLock(p)
    \/ \E p \in Probes : ProbeUnlock(p)

\* The ticker of main fires every 5 s, every probe goroutine is scheduled,
\* its GET ends within the 2 s client timeout, and a goroutine waiting for
\* s.mu gets it (sync.RWMutex does not starve a writer).
HealFairness ==
    /\ SF_vars(MonitorRound)
    /\ \A p \in 1..HealProbes :
          /\ WF_vars(ProbeGetAny(p))
          /\ SF_vars(ProbeLock(p))
          /\ WF_vars(ProbeUnlock(p))

SpecHeal == InitHeal /\ [][NextHeal]_vars /\ HealFairness

\* ================================================================ claims
\* ---------------------------------------------------------------------- C1
\* C1: under every algorithm and every interleaving with the health probes, a
\* backend that a selection call returns was read as alive by that call, and
\* was therefore alive at some moment of the call: a backend that is dead for
\* the whole call is never returned.
C1_ReturnedWasReadAlive ==
    \A r \in Tasks :
        (pc[r] = "check" /\ ret[r] \in servers)
            => (ret[r] \in seenAlive[r] /\ ret[r] \in callLive[r])

\* a call has returned a backend that a probe has marked dead since, while
\* another backend was dead during the whole call
C1_Witness ==
    \E r \in Tasks :
        /\ pc[r] = "check"
        /\ ret[r] \in servers
        /\ ~alive[ret[r]]
        /\ callLive[r] # servers

\* ---------------------------------------------------------------------- C2
\* C2: a request handled on a non-empty pool in which no backend was alive at
\* any moment of the request ends with the 503 answer.
C2_DeadPoolGets503 ==
    \A r \in Tasks :
        (pc[r] = "done" /\ total > 0 /\ ~someLive[r]) => status[r] = "503"

\* ---------------------------------------------------------------------- C3
\* C3: a selection call on a non-empty pool whose backends are all dead
\* during the whole call returns the nil Server that serveProxy tests for.
C3_AllDeadReturnsNone ==
    \A r \in Tasks :
        (pc[r] = "check" /\ total > 0 /\ callLive[r] = {}) => ret[r] = NilServer

\* ---------------------------------------------------------------------- C4
\* C4: on an empty pool every selection returns the nil Server and every
\* request ends with the 503 answer.
C4_EmptyPoolFailsExplicitly ==
    \A r \in Tasks :
        total = 0 =>
            /\ pc[r] = "check" => ret[r] = NilServer
            /\ pc[r] = "done" => status[r] = "503"

\* ---------------------------------------------------------------------- C5
\* the requests in flight on backend s: between increment() and decrement()
InFlight(s) ==
    {r \in Tasks : pc[r] \in {"inc_requests", "forward"} /\ ret[r] = s}

\* C5: for every backend, activeConns is the number of increment() calls
\* minus the number of decrement() calls, is the number of requests in flight
\* on it, and is never negative.
C5_ActiveConnsIsInFlight ==
    \A s \in servers :
        /\ activeConns[s] = starts[s] - ends[s]
        /\ activeConns[s] = Cardinality(InFlight(s))
        /\ activeConns[s] >= 0

\* one request on a backend has ended without success while another one is
\* in flight on the same backend
C5_Witness ==
    \E s \in servers, r \in Tasks :
        /\ activeConns[s] = 1
        /\ ends[s] = 1
        /\ ret[r] = s
        /\ how[r] \in {"error", "cancel", "abort"}

\* ---------------------------------------------------------------------- C6
\* C6: every increment() of a request is followed by the decrement() of that
\* request, however its forward ends; decrements never outnumber increments,
\* and a backend with no request in flight has had as many decrements as
\* increments and has activeConns 0.
C6_EveryStartIsEnded ==
    /\ [](\A s \in servers :
            /\ ends[s] <= starts[s]
            /\ InFlight(s) = {} => (ends[s] = starts[s] /\ activeConns[s] = 0))
    /\ \A r \in 1..MaxReq :
          (pc[r] = "inc_requests") ~> (how[r] # "none" /\ pc[r] \in {"report", "done"})

\* every way a forward can end has been followed by its decrement, and all
\* requests are over
C6_Witness ==
    /\ \A r \in Tasks : pc[r] = "done"
    /\ \E r, q \in Tasks : how[r] = "abort" /\ how[q] \in {"error", "cancel"}
    /\ \E s \in servers : starts[s] > 0

\* --------------------------------------------------------------------- C10
\* C10: a getRandomServer call draws at most len(lb.servers) samples: after
\* that many draws it is no longer in its loop.
C10_RandomDrawsBounded ==
    \A r \in Tasks : pc[r] = "rand" => samples[r] < total

\* ---------------------------------------------------------------------- C7
AllAlive == \A s \in servers : alive[s]

\* C7: on an all-alive pool of size N, any N round-robin calls that are
\* consecutive in the order of their cursor advance, and have all ended,
\* have chosen every backend of the pool (hence each exactly once).
C7_FairRotation ==
    AllAlive =>
        \A t \in 1..(Len(rrLog) - total + 1) :
            (\A j \in t..(t + total - 1) : rrLog[j] # NotReturned)
                => {rrLog[j] : j \in t..(t + total - 1)} = servers

\* ---------------------------------------------------------------------- C8
\* the run is the scenario of C8: pool [A, B, C] all alive, the cursor
\* started at 0, and no two selections were ever in progress at once
C8_Scenario == total = 3 /\ AllAlive /\ rrInit = 0 /\ ~overlap

\* C8 as stated: the k-th sequential selection returns index (k-1) mod 3,
\* that is A, B, C, A, B, C.
C8_StartsAtA ==
    C8_Scenario => \A k \in 1..Len(retLog) : retLog[k] = (k - 1) % 3

\* C8 amended: the k-th sequential selection returns index k mod 3, that is
\* B, C, A, B, C, A: the cursor is advanced before it is used.
C8_StartsAtB ==
    C8_Scenario => \A k \in 1..Len(retLog) : retLog[k] = k % 3

\* six sequential selections have returned B, C, A, B, C, A
C8_Witness == C8_Scenario /\ retLog = <<1, 2, 0, 1, 2, 0>>

\* ---------------------------------------------------------------------- C9
\* C9: a least-connections call during which no alive flag and no counter
\* changed, on a pool with an alive backend, returns an alive backend with
\* the least activeConns among the alive ones, and the one of lowest index
\* among those.
C9_LeastConnPicksFirstMinimum ==
    \A r \in Tasks :
        (pc[r] = "check" /\ algorithm = "leastconn" /\ ~changed[r]
            /\ \E s \in servers : alive[s])
        => /\ ret[r] \in servers
           /\ alive[ret[r]]
           /\ \A u \in servers :
                 alive[u] =>
                    /\ activeConns[ret[r]] <= activeConns[u]
                    /\ u < ret[r] => activeConns[ret[r]] < activeConns[u]

\* the scenario [A(2), B(0), C(1)], all alive, with nothing changing during
\* the scan: B is selected
C9_Witness ==
    \E r \in Tasks :
        /\ pc[r] = "check" /\ ~changed[r] /\ AllAlive
        /\ activeConns = (0 :> 2 @@ 1 :> 0 @@ 2 :> 1)
        /\ ret[r] = 1

\* --------------------------------------------------------------------- C11
\* C11: once a probe has written s.alive, and for as long as it holds s.mu,
\* the flag is true exactly when its GET returned without error and with
\* status 200, and false after a transport error, a timeout or any other
\* status; and a step of a probe leaves every request's locals and every
\* connection counter as they were.
C11_ProbeSetsLiveness ==
    /\ [](\A p \in Probes :
             ppc[p] = "log" => (alive[psrv[p]] <=> pout[p] = "200"))
    /\ [][ppc' # ppc => UNCHANGED <<locals, activeConns, requests>>]_vars

\* a probe that got a 204 has marked its backend dead while a request is
\* being forwarded
C11_Witness ==
    \E p \in Probes, r \in Tasks :
        /\ ppc[p] = "log" /\ pout[p] = "204" /\ ~alive[psrv[p]]
        /\ pc[r] = "forward"

\* --------------------------------------------------------------------- C12
\* the step is one of request task r alone
Mover(r) == pc'[r] # pc[r] /\ \A q \in Tasks \ {r} : pc'[q] = pc[q]

\* C12: a step that changes the alive flag of a backend is the step of a
\* probe that takes s.mu and writes the flag of its own backend, and no other;
\* a step of a request task (selection, increment, forward however it ends,
\* decrement, reporting) changes no alive flag.
C12_OnlyProbesWriteAlive ==
    /\ [][alive' # alive =>
             \E p \in Probes :
                 /\ ppc[p] = "lock" /\ ppc'[p] = "log"
                 /\ \A s \in servers \ {psrv[p]} : alive'[s] = alive[s]]_vars
    /\ [][(locals' # locals \/ samples' # samples) => alive' = alive]_vars

\* a forward has failed and its backend is still alive, while a probe has
\* marked another backend dead
C12_Witness ==
    \E r \in Tasks :
        /\ pc[r] \in {"report", "done"}
        /\ how[r] = "error"
        /\ alive[ret[r]]
        /\ \E s \in servers : ~alive[s]

\* --------------------------------------------------------------------- C13
\* the step is one of the selection call of request task r
SelStep(r) ==
    /\ pc[r] = "idle" \/ InCall(r)
    /\ <<pc[r], start[r], i[r], selected[r], min[r], ret[r], samples[r]>>' #
          <<pc[r], start[r], i[r], selected[r], min[r], ret[r], samples[r]>>

\* C13: a step of a selection call, under every algorithm, leaves activeConns
\* and requests of every backend unchanged; a step that changes one of them
\* is a step of a request task that has its target: the adds of increment()
\* and the add of decrement().
C13_SelectionLeavesCounters ==
    /\ [][(\E r \in Tasks : SelStep(r))
             => UNCHANGED <<activeConns, requests>>]_vars
    /\ [][<<activeConns, requests>>' # <<activeConns, requests>> =>
             \E r \in Tasks :
                 Mover(r) /\ pc[r] \in {"check", "inc_requests", "forward"}]_vars

\* a selection call has returned a backend while the only counted request is
\* the one another task is forwarding
C13_Witness ==
    \E r, q \in Tasks :
        /\ pc[r] = "check" /\ ret[r] \in servers
        /\ pc[q] = "forward"
        /\ \A s \in servers :
              /\ activeConns[s] = (IF s = ret[q] THEN 1 ELSE 0)
              /\ requests[s] = activeConns[s]

\* --------------------------------------------------------------------- C14
\* the requests that have called increment() on backend s, up to its first
\* add and up to its second
Started(s) ==
    {r \in Tasks : ret[r] = s
                     /\ pc[r] \in {"inc_requests", "forward", "report", "done"}}
Counted(s) == {r \in Tasks : ret[r] = s /\ pc[r] \in {"forward", "report", "done"}}

\* C14: every request that got a target has incremented the counters of that
\* backend once and of no other backend, however its forward ended, and a
\* request that got no target has incremented none; a step that changes a
\* counter of backend s is a step of a request whose target is and stays s.
C14_OnlyTheTargetIsCounted ==
    /\ [](\A s \in servers :
             /\ starts[s] = Cardinality(Started(s))
             /\ requests[s] = Cardinality(Counted(s)))
    /\ [][\A s \in servers :
             (activeConns'[s] # activeConns[s] \/ requests'[s] # requests[s])
                => \E r \in Tasks : Mover(r) /\ ret[r] = s /\ ret'[r] = s]_vars

\* one request was answered 503 and another's forward to the second backend
\* failed: the second backend has counted one request, the first none
C14_Witness ==
    \E r, q \in Tasks :
        /\ status[r] = "503" /\ how[r] = "none"
        /\ pc[q] = "done" /\ how[q] = "error" /\ ret[q] = 1
        /\ requests = (0 :> 0 @@ 1 :> 1)
        /\ starts = requests

\* --------------------------------------------------------------------- C15
\* C15: under every algorithm name other than "roundrobin" and "leastconn"
\* ("random", the empty name, a misspelt name) a selection is a call of
\* getRandomServer: no request is ever inside the round-robin or the
\* least-connections scan, rrCounter is never advanced, a call that returns
\* returns a backend it has just sampled and read as alive, and no request
\* is refused for its algorithm name (none gets the nil target, and a 503
\* is one that the backend itself answered).
C15_UnknownNameIsRandom ==
    algorithm \notin {"roundrobin", "leastconn"} =>
        /\ rrCounter = rrInit
        /\ \A r \in Tasks :
              /\ pc[r] \notin {"rr_scan", "lc_alive", "lc_conns", "lc_print"}
              /\ InCall(r) => pc[r] = "rand"
              /\ pc[r] = "check" => (ret[r] \in servers /\ ret[r] \in seenAlive[r])
              /\ status[r] = "503" => how[r] = "ok"

\* under the name "RoundRobin" a call has returned the second backend after
\* it had drawn a dead backend first
C15_Witness ==
    /\ algorithm = "RoundRobin"
    /\ \E r \in Tasks :
          /\ pc[r] = "check" /\ ret[r] = 1 /\ samples[r] >= 2
          /\ ~alive[0]

\* --------------------------------------------------------------------- C16
\* C16: an entry of cfg.Backends whose address url.Parse rejects yields no
\* backend: no such entry is in the pool the process runs with, and no
\* request is given such a backend as its target.
C16_MalformedAddressRejected ==
    /\ \A s \in servers : addrOK[s]
    /\ \A r \in Tasks : ret[r] \in servers => addrOK[ret[r]]

\* --------------------------------------------------------------------- C17
\* the backends whose isAlive() request task r may call in its next step
NextRead(r) ==
    CASE pc[r] = "rr_scan" -> {RRIndex(start[r], i[r], total)} \cap servers
      [] pc[r] \in {"lc_alive", "lc_print"} -> {i[r]}
      [] pc[r] = "rand" -> servers
      [] OTHER -> {}

\* the Lock of s.mu is held by a probe that is inside logHealthCheck
LockedForIO(s) == mu[s] # 0 /\ ppc[mu[s]] = "log"

\* C17: s.mu is not held across I/O: no request about to call isAlive() on
\* a backend finds the backend's lock held by a probe that is writing its
\* health-check log.
C17_NoIOUnderLivenessLock ==
    \A r \in Tasks : \A s \in NextRead(r) : ~LockedForIO(s)

\* --------------------------------------------------------------------- C18
\* the value of rrCounter that the t-th advance of the run returned
RECURSIVE CursorAt(_)
CursorAt(t) == IF t = 0 THEN rrInit ELSE AddInt32(CursorAt(t - 1), 1)

\* the first alive backend in circular pool order from index k
FirstAliveFrom(k) ==
    LET d == CHOOSE d \in 0..(total - 1) :
                 /\ alive[(k + d) % total]
                 /\ \A e \in 0..(d - 1) : ~alive[(k + e) % total]
    IN (k + d) % total

\* C18: on a pool with an alive backend whose alive flags do not change,
\* every round-robin call that has ended has returned the first alive
\* backend in circular order from index (cursor mod poolSize), cursor being
\* the value its advance of rrCounter returned, and no call inspects more
\* than poolSize backends.
C18_FirstAliveFromCursor ==
    (\E s \in servers : alive[s]) =>
        /\ \A t \in 1..Len(rrLog) :
              rrLog[t] # NotReturned
                 => rrLog[t] = FirstAliveFrom(CursorAt(t) % total)
        /\ \A r \in Tasks : pc[r] = "rr_scan" => i[r] < total

\* --------------------------------------------------------------------- C19
\* C19: rrCounter is its initial value plus the number of round-robin calls
\* made so far; a step changes it only by adding 1, to a larger value, and
\* is then the step that starts one round-robin call, and every round-robin
\* call that starts changes it: the calls observe distinct values,
\* increasing in the order of the advances.
C19_CursorCountsCalls ==
    /\ [](rrCounter >= rrInit /\ rrCounter - rrInit = Len(rrLog))
    /\ [][rrCounter' # rrCounter =>
             /\ rrCounter' > rrCounter
             /\ rrCounter' = rrCounter + 1
             /\ \E r \in Tasks : pc[r] = "idle" /\ pc'[r] = "rr_scan"]_vars
    /\ [][(\E r \in Tasks : pc[r] = "idle" /\ pc'[r] # "idle")
             => rrCounter' # rrCounter]_vars

\* --------------------------------------------------------------------- C20
\* no probe of backend s is waiting to write a failure, resp. a success
ProbesSucceed(s) ==
    \A p \in Probes : (ppc[p] = "lock" /\ psrv[p] = s) => pok[p]
ProbesFail(s) ==
    \A p \in Probes : (ppc[p] = "lock" /\ psrv[p] = s) => ~pok[p]

\* C20: with the monitor and its probes scheduled fairly, for every backend:
\* if from some point on no probe of it comes back failed, then from some
\* point on it is alive for good, and if from some point on no probe of it
\* comes back successful, then from some point on it is dead for good.
C20_SelfHealing ==
    \A s \in 0..(HealServers - 1) :
        /\ <>[]ProbesSucceed(s) => <>[](s \notin servers \/ alive[s])
        /\ <>[]ProbesFail(s) => <>[](s \notin servers \/ ~alive[s])

\* two backends, one marked alive by a probe that got a 200, the other
\* marked dead by a probe that timed out
C20_Witness ==
    \E p, q \in Probes :
        /\ ppc[p] = "log" /\ pout[p] = "200" /\ alive[psrv[p]]
        /\ ppc[q] = "log" /\ pout[q] = "timeout" /\ ~alive[psrv[q]]

\* --------------------------------------------------------------------- C21
\* C21: a backend whose alive flag no probe has written yet is alive, and a
\* selection call that returns on a non-empty pool before any probe has
\* written a flag returns a backend of the pool, under every algorithm name.
C21_AliveUntilProbed ==
    /\ \A s \in servers \ probed : alive[s]
    /\ \A r \in Tasks :
          (pc[r] = "check" /\ total > 0 /\ probed = {}) => ret[r] \in servers

\* a least-connections call has returned a backend while the first probe,
\* which has failed, has not yet written its result
C21_Witness ==
    /\ algorithm = "leastconn"
    /\ probed = {}
    /\ \E r \in Tasks : pc[r] = "check" /\ ret[r] \in servers
    /\ \E p \in Probes : ppc[p] = "lock" /\ ~pok[p]

\* --------------------------------------------------------------------- C22
\* C22: for every value of rrCounter, also after it has wrapped, the start
\* index and the index of every iteration of the round-robin scan are
\* indices of lb.servers, and no round-robin call has panicked.
C22_IndexInRange ==
    /\ \A r \in Tasks :
          pc[r] = "rr_scan" =>
              /\ start[r] \in servers
              /\ RRIndex(start[r], i[r], total) \in servers
    /\ \A t \in 1..Len(rrLog) : rrLog[t] # Panicked

\* --------------------------------------------------------------------- C23
\* no probe of backend s is outstanding
Quiet(s) == \A p \in Probes : ppc[p] # "idle" => psrv[p] # s

\* C23: whenever no probe of a backend is outstanding, its alive flag is
\* what the most recently started probe of that backend wrote (true, as
\* built, when none was started yet).
C23_NewestProbeWins ==
    \A s \in servers : Quiet(s) => (alive[s] <=> newest[s].ok)

====
